---- MODULE Spec2Model ----
(***************************************************************************)
(* A model of the FourTracks audio engine: the three capture strategies    *)
(* (MediaRecorderWrapper, AudioBufferRecorder with its worklet processor,  *)
(* ScriptProcessorRecorder), the AudioEngine orchestrator and the          *)
(* PlaybackManager.                                                        *)
(*                                                                         *)
(* Every method of the source is an operator that maps a state record S    *)
(* (one field per variable, plus the transient field err that carries a    *)
(* thrown error) to the state record after the call, so that nested        *)
(* synchronous calls compose as in the source.  An action applies one      *)
(* handler to the current state.                                           *)
(***************************************************************************)
EXTENDS Integers, Sequences, FiniteSets, TLC

VARIABLES
  currentTime,      \* AudioContext.currentTime, in clock ticks
  inputBuffer,      \* the platform-owned input block, reused for every callback
  blockCount,       \* number of input blocks the platform has rendered
  streams,          \* device streams acquired and not yet stopped
  mrs,              \* the platform's MediaRecorder objects
  inputSources,     \* MediaStreamAudioSourceNodes connected to inputGain
  inputGainOut,     \* nodes the inputGain node is connected to
  recorders,        \* the capture strategy objects
  audioContext,     \* AudioEngine.audioContext: "null", "running", "closed"
  state,            \* AudioEngine._state
  tracks,           \* AudioEngine.tracks
  mediaStream,      \* AudioEngine.mediaStream (0 is null)
  inputSource,      \* AudioEngine.inputSource (0 is null)
  recorder,         \* AudioEngine.recorder (0 is null)
  currentRecordingTrack,
  calls,            \* startRecording calls in flight, one record per call
  playbackSources,  \* PlaybackManager.playbackSources: track ids with a voice
  voices,           \* per track, the buffer sources started and still sounding
  pendingEnded,     \* per track, 'ended' events of stopped sources not yet dispatched
  trackGain,        \* AudioNodeManager.trackNodes: per track, its gain node's value
  events,           \* what the last step emitted, returned or threw
  hSessions,        \* callers: start() or startRecording() calls that were accepted
  hStops,           \* capture harness: stop() calls made on a recording strategy
  hStopElapsed,     \* capture harness: clock ticks start()..stop() of the last stop
  hCompletes,       \* capture harness: complete callbacks received
  hLast,            \* capture harness: the last RecordingBuffer received
  hMixedEarly,      \* callers: a track control was used before initialize()
  levelMonitor      \* the LevelMonitor object and its pending animation frames

vars == << currentTime, inputBuffer, blockCount, streams, mrs, inputSources,
           inputGainOut, recorders, audioContext, state, tracks, mediaStream,
           inputSource, recorder, currentRecordingTrack, calls, playbackSources,
           voices, pendingEnded, events, hSessions, hStops, hStopElapsed, hCompletes,
           hLast, trackGain, hMixedEarly, levelMonitor >>

---------------------------------------------------------------------------
(* Bounds of the model *)

MaxClock == 2          \* the clock stops advancing here
TicksPerSecond == 2    \* clock ticks per second
SampleRate == 3        \* samples per second (the model's scale of 48000)
BufferSize == 2        \* samples per platform block
MaxBlocks == 2         \* input blocks the platform renders in a behaviour
MaxChunks == 2         \* container chunks kept by a MediaRecorderWrapper
BlobFrames == 1        \* samples a non-empty container chunk decodes to
ProgressEvery == 2     \* a progress report every so many blocks
MaxSessions == 1       \* start() calls the capture harness makes
MaxStartRecordings == 2 \* startRecording calls the engine accepts
MaxRecorders == 2      \* capture strategy objects alive at a time
MaxMediaRecorders == 2 \* platform MediaRecorder objects alive at a time
MaxStreams == 2        \* device streams alive at a time
MaxCalls == 2          \* overlapping startRecording calls
MaxTrackId == 1        \* track ids the callers use (besides an unknown one)
MaxPendingEnded == 1   \* undelivered 'ended' events per track
MaxVoices == 1         \* buffer sources sounding at a time per track
MaxRecordingTime == 2  \* config.maxRecordingTime, in clock ticks
MaxPlaybacks == 2      \* startPlayback calls told apart: one, or more
MaxFrames == 2         \* animation frames of a LevelMonitor pending at once
MaxMixerTrack == 2     \* track ids the callers of the track controls use

(* Program constants *)

NumTracks == 4
NumberOfChannels == 2
NaN == 0 - 1
FullVolume == 100      \* the volume and gain 1.0, in hundredths

RecIds == 1..MaxRecorders
MRIds == 1..MaxMediaRecorders
TrackIds == 1..NumTracks
CallIds == 1..MaxCalls
UnknownTrack == NumTracks + 1
CallerTrackIds == (1..MaxTrackId) \cup {UnknownTrack}
Channels == 1..4            \* channels a platform block may carry
ChannelCounts == {1, 2, 4}  \* channelCount arguments the callers pass

---------------------------------------------------------------------------
(* Values *)

NoCallback == [kind |-> "none", track |-> 0]
TestCallback == [kind |-> "test", track |-> 0]
EngineCallback(t) == [kind |-> "engine", track |-> t]

Ev(type, id, arg) == [type |-> type, id |-> id, arg |-> arg]

NoBuffer == [sampleRate |-> 0, numberOfChannels |-> 0, length |-> 0,
             channelData |-> << >>]

FreshTrack == [audioBuffer |-> NoBuffer, isRecording |-> FALSE,
               isPlaying |-> FALSE, isMuted |-> FALSE, isSolo |-> FALSE,
               volume |-> FullVolume]

\* AudioNodeManager.trackNodes before createTrackNodes() and after dispose()
NoTrackNodes == [t \in {} |-> 0]

\* a startRecording call: where it waits, and what it was called with
NoCall == [pc |-> "none", trackId |-> 0, result |-> ""]

\* does the sequence of events hold one of this type and argument
Has(evs, type, arg) ==
  \E i \in DOMAIN evs : evs[i].type = type /\ evs[i].arg = arg

\* The i-th sample of channel c of the k-th block the platform renders.
Sample(k, c, i) == k * 100 + c * 10 + i

\* The blocks the platform may render as its k-th: valid samples, or a block
\* whose first sample of every channel is invalid.
InputBlocks(k, nch) ==
  { [c \in 1..nch |-> [i \in 1..BufferSize |->
        IF bad /\ i = 1 THEN NaN ELSE Sample(k, c, i)]] : bad \in BOOLEAN }

Zeros(n) == [i \in 1..n |-> 0]

Min(a, b) == IF a < b THEN a ELSE b

\* Math.floor(duration * sampleRate), duration in clock ticks
FloorSamples(ticks) == (ticks * SampleRate) \div TicksPerSecond

FreshRecorder ==
  [ kind |-> "none",
    isRecording |-> FALSE,
    isProcessing |-> FALSE,
    workletNode |-> FALSE,        \* AudioBufferRecorder.workletNode !== null
    processor |-> FALSE,          \* ScriptProcessorRecorder.processor !== null
    processorChannels |-> 0,      \* channels of the ScriptProcessorNode
    mediaRecorder |-> 0,          \* MediaRecorderWrapper.mediaRecorder (0 is null)
    mediaStream |-> FALSE,        \* MediaRecorderWrapper.mediaStream !== null
    progressInterval |-> FALSE,   \* MediaRecorderWrapper.progressInterval !== null
    recordingStartTime |-> 0,
    channelCount |-> 2,
    recordingBuffer |-> << >>,    \* ScriptProcessorRecorder.recordingBuffer
    recordedChunks |-> << >>,     \* MediaRecorderWrapper.recordedChunks
    sampleCount |-> 0,            \* closure variable of onaudioprocess
    lastSample |-> [c \in Channels |-> 0],
    procRecording |-> FALSE,      \* RecorderProcessor.isRecording
    procChannelCount |-> 2,       \* RecorderProcessor.channelCount
    procChunks |-> << >>,         \* RecorderProcessor.recordedChunks
    toProc |-> << >>,             \* messages posted to the processor
    toMain |-> << >>,             \* messages posted to the main thread
    onProgress |-> NoCallback,
    onComplete |-> NoCallback,
    hInitialized |-> FALSE ]      \* a caller's initialize() has resolved

St ==
  [ currentTime |-> currentTime, inputBuffer |-> inputBuffer,
    blockCount |-> blockCount, streams |-> streams, mrs |-> mrs,
    inputSources |-> inputSources, inputGainOut |-> inputGainOut,
    recorders |-> recorders, audioContext |-> audioContext, state |-> state,
    tracks |-> tracks, mediaStream |-> mediaStream, inputSource |-> inputSource,
    recorder |-> recorder, currentRecordingTrack |-> currentRecordingTrack,
    calls |-> calls, playbackSources |-> playbackSources, voices |-> voices,
    pendingEnded |-> pendingEnded, events |-> << >>,
    hSessions |-> hSessions, hStops |-> hStops, hStopElapsed |-> hStopElapsed,
    hCompletes |-> hCompletes, hLast |-> hLast, trackGain |-> trackGain,
    hMixedEarly |-> hMixedEarly, levelMonitor |-> levelMonitor, err |-> "" ]

Apply(S) ==
  /\ currentTime' = S.currentTime
  /\ inputBuffer' = S.inputBuffer
  /\ blockCount' = S.blockCount
  /\ streams' = S.streams
  /\ mrs' = S.mrs
  /\ inputSources' = S.inputSources
  /\ inputGainOut' = S.inputGainOut
  /\ recorders' = S.recorders
  /\ audioContext' = S.audioContext
  /\ state' = S.state
  /\ tracks' = S.tracks
  /\ mediaStream' = S.mediaStream
  /\ inputSource' = S.inputSource
  /\ recorder' = S.recorder
  /\ currentRecordingTrack' = S.currentRecordingTrack
  /\ calls' = S.calls
  /\ playbackSources' = S.playbackSources
  /\ voices' = S.voices
  /\ pendingEnded' = S.pendingEnded
  /\ events' = S.events
  /\ hSessions' = S.hSessions
  /\ hStops' = S.hStops
  /\ hStopElapsed' = S.hStopElapsed
  /\ hCompletes' = S.hCompletes
  /\ hLast' = S.hLast
  /\ trackGain' = S.trackGain
  /\ hMixedEarly' = S.hMixedEarly
  /\ levelMonitor' = S.levelMonitor

Emit(S, e) == [S EXCEPT !.events = Append(@, e)]
Throw(S, msg) == [S EXCEPT !.err = msg]

\* A node of the audio graph that inputGain may feed
Node(kind, id) == [node |-> kind, id |-> id]

RECURSIVE InvokeProgress(_, _, _)
RECURSIVE InvokeComplete(_, _, _)

---------------------------------------------------------------------------
(* Stored chunks.  A chunk the code stores is either a freshly allocated    *)
(* array holding copied samples, or (what the code must not do) the         *)
(* platform's own array, whose content is whatever the platform last wrote. *)

\* the bug of keeping the platform's array itself
ReferenceTo(c, data) == [ref |-> TRUE, ch |-> c, data |-> << >>]

\* new Float32Array(n) filled sample by sample
CopyOf(c, data) == [ref |-> FALSE, ch |-> c, data |-> data]

\* the samples a stored chunk holds now
Deref(S, chunk) == IF chunk.ref THEN S.inputBuffer[chunk.ch] ELSE chunk.data

RECURSIVE SumLen(_)
SumLen(seqs) == IF seqs = << >> THEN 0 ELSE Len(Head(seqs)) + SumLen(Tail(seqs))

\* Float32Array.set(chunk, offset)
SetAt(buf, chunk, offset) ==
  [i \in 1..Len(buf) |->
     IF i > offset /\ i <= offset + Len(chunk) THEN chunk[i - offset] ELSE buf[i]]

---------------------------------------------------------------------------
(* ScriptProcessorRecorder *)

\* The copy loop of onaudioprocess: an invalid sample is replaced by the last
\* valid one.  Returns the processed samples; the last of them is lastSample.
Processed(data, last) ==
  LET f[i \in 0..Len(data)] ==
        IF i = 0 THEN last
        ELSE IF data[i] = NaN THEN f[i - 1] ELSE data[i]
  IN [i \in 1..Len(data) |-> f[i]]

\* start() without its guard
SPStartUnguarded(S, r, channelCount) ==
  LET R == S.recorders[r] IN
  [S EXCEPT
     !.recorders[r] = [R EXCEPT !.processor = TRUE,
                                !.processorChannels = channelCount,
                                !.sampleCount = 0,
                                !.lastSample = [c \in Channels |-> 0],
                                !.isRecording = TRUE,
                                !.recordingStartTime = S.currentTime,
                                !.recordingBuffer = << >>],
     !.inputGainOut = @ \cup {Node("silentProcessor", r)}]

SPStart(S, r, channelCount) ==
  LET R == S.recorders[r] IN
  IF R.isRecording THEN Throw(S, "Already recording")
  ELSE [S EXCEPT
          !.recorders[r] = [R EXCEPT !.processor = TRUE,
                                     !.processorChannels = channelCount,
                                     !.sampleCount = 0,
                                     !.lastSample = [c \in Channels |-> 0],
                                     !.isRecording = TRUE,
                                     !.recordingStartTime = S.currentTime,
                                     !.recordingBuffer = << >>],
          !.inputGainOut = @ \cup {Node("silentProcessor", r)}]

RECURSIVE SPPushChannels(_, _, _)
\* the loop over the channels of event.inputBuffer, from channel c on
SPPushChannels(R, block, c) ==
  IF c > Len(block) THEN R
  ELSE LET data == Processed(block[c], R.lastSample[c]) IN
       SPPushChannels(
         [R EXCEPT !.recordingBuffer = Append(@, CopyOf(c, data)),
                   !.lastSample[c] = data[Len(data)]],
         block, c + 1)

SPOnAudioProcess(S, r, block) ==
  LET S1 == [S EXCEPT !.inputBuffer = block, !.blockCount = @ + 1]
      R == S1.recorders[r]
  IN IF ~R.isRecording THEN S1
     ELSE LET R1 == SPPushChannels(R, block, 1)
              R2 == [R1 EXCEPT !.sampleCount = @ + 1]
              S2 == [S1 EXCEPT !.recorders[r] = R2]
          IN IF R2.sampleCount % ProgressEvery = 0
             THEN InvokeProgress(S2, R2.onProgress,
                                 S2.currentTime - R2.recordingStartTime)
             ELSE S2

RECURSIVE PlaceChunksClipped(_, _, _, _, _)
\* the inner loop without its overflow test, a chunk cut at the end of buf
PlaceChunksClipped(buf, chunks, i, step, offset) ==
  IF i > Len(chunks) THEN buf
  ELSE PlaceChunksClipped(SetAt(buf, chunks[i], offset), chunks, i + step, step,
                          offset + Len(chunks[i]))

RECURSIVE PlaceChunks(_, _, _, _, _)
\* the inner loop of organizeChannelData: chunks i, i+step, ... into buf
PlaceChunks(buf, chunks, i, step, offset) ==
  IF i > Len(chunks) THEN buf
  ELSE IF offset + Len(chunks[i]) <= Len(buf)
       THEN PlaceChunks(SetAt(buf, chunks[i], offset), chunks, i + step, step,
                        offset + Len(chunks[i]))
       ELSE PlaceChunks(buf, chunks, i + step, step, offset)

OrganizeChannelData(S, r, numberOfChannels, duration) ==
  LET R == S.recorders[r]
      totalLength == FloorSamples(duration)
      chunks == [i \in 1..Len(R.recordingBuffer) |-> Deref(S, R.recordingBuffer[i])]
  IN [ch \in 1..numberOfChannels |->
        PlaceChunks(Zeros(totalLength), chunks, ch, numberOfChannels, 0)]

\* the bug of taking the length from what was buffered for channel 0
SPBufferedLength(S, r, duration) ==
  SumLen([i \in 1..(Len(S.recorders[r].recordingBuffer) \div 2) |->
             Deref(S, S.recorders[r].recordingBuffer[2 * i - 1])])

\* the length field of the result: Math.floor(duration * sampleRate)
SPResultLength(S, r, duration) == FloorSamples(duration)

\* stop() without its guard
SPStopUnguarded(S, r) ==
  LET R == S.recorders[r]
      duration == S.currentTime - R.recordingStartTime
      numberOfChannels == 2
      channelData == OrganizeChannelData(S, r, numberOfChannels, duration)
      buffer == [sampleRate |-> SampleRate,
                 numberOfChannels |-> numberOfChannels,
                 length |-> SPResultLength(S, r, duration),
                 channelData |-> channelData]
      S1 == [S EXCEPT !.recorders[r] = [R EXCEPT !.isRecording = FALSE,
                                                 !.processor = FALSE],
                      !.inputGainOut = @ \ {Node("silentProcessor", r)}]
  IN InvokeComplete(S1, R.onComplete, buffer)

SPStop(S, r) ==
  LET R == S.recorders[r] IN
  IF ~R.isRecording \/ ~R.processor THEN S
  ELSE LET duration == S.currentTime - R.recordingStartTime
           numberOfChannels == 2
           channelData == OrganizeChannelData(S, r, numberOfChannels, duration)
           buffer == [sampleRate |-> SampleRate,
                      numberOfChannels |-> numberOfChannels,
                      length |-> SPResultLength(S, r, duration),
                      channelData |-> channelData]
           S1 == [S EXCEPT !.recorders[r] = [R EXCEPT !.isRecording = FALSE,
                                                      !.processor = FALSE],
                           !.inputGainOut = @ \ {Node("silentProcessor", r)}]
       IN InvokeComplete(S1, R.onComplete, buffer)

SPDispose(S, r) == SPStop(S, r)

---------------------------------------------------------------------------
(* RecorderProcessor (recorder-worklet.js), the audio-thread half of the    *)
(* low-latency strategy, and its message port                               *)

\* postMessage makes a structured clone: the samples as they are when posted
CloneChunks(S, chunks) ==
  [i \in 1..Len(chunks) |->
     [channelData |-> [c \in 1..Len(chunks[i].channelData) |->
                          Deref(S, chunks[i].channelData[c])]]]

ProcStartRecording(S, r, channelCount) ==
  [S EXCEPT !.recorders[r].procRecording = TRUE,
            !.recorders[r].procChannelCount = channelCount,
            !.recorders[r].procChunks = << >>]

ProcStopRecording(S, r) ==
  LET R == S.recorders[r] IN
  IF ~R.procRecording THEN S
  ELSE [S EXCEPT !.recorders[r].procRecording = FALSE,
                 !.recorders[r].toMain =
                    Append(@, [type |-> "recordingData",
                               data |-> CloneChunks(S, R.procChunks)]),
                 !.recorders[r].procChunks = << >>]

\* this.port.onmessage of the processor
ProcOnMessage(S, r, msg) ==
  IF msg.type = "start" THEN ProcStartRecording(S, r, msg.channelCount)
  ELSE ProcStopRecording(S, r)

\* process(inputs, ...): one render quantum whose input carries the block
ProcProcess(S, r, block) ==
  LET S1 == [S EXCEPT !.inputBuffer = block, !.blockCount = @ + 1]
      R == S1.recorders[r]
  IN IF ~R.procRecording THEN S1
     ELSE LET chunk == [channelData |->
                          [c \in 1..Min(Len(block), R.procChannelCount) |->
                             CopyOf(c, block[c])]]
              chunks == Append(R.procChunks, chunk)
          IN [S1 EXCEPT
                !.recorders[r].procChunks = chunks,
                !.recorders[r].toMain =
                   IF Len(chunks) % ProgressEvery = 0
                   THEN Append(@, [type |-> "progress", data |-> << >>])
                   ELSE @]

---------------------------------------------------------------------------
(* AudioBufferRecorder *)

ABRInitialize(S, r, ok) ==
  IF ~ok THEN Throw(S, "AudioWorklet not supported")
  ELSE [S EXCEPT !.recorders[r].workletNode = TRUE,
                 !.recorders[r].procRecording = FALSE,
                 !.recorders[r].procChunks = << >>]

\* start() without the test of the worklet node
ABRStartUninitialized(S, r, channelCount) ==
  LET R == S.recorders[r] IN
  IF R.isRecording THEN Throw(S, "Already recording")
  ELSE [S EXCEPT
          !.inputGainOut = @ \cup {Node("worklet", r)},
          !.recorders[r].isRecording = TRUE,
          !.recorders[r].recordingStartTime = S.currentTime,
          !.recorders[r].toProc =
             Append(@, [type |-> "start", channelCount |-> channelCount])]

ABRStart(S, r, channelCount) ==
  LET R == S.recorders[r] IN
  IF ~R.workletNode THEN Throw(S, "Recorder not initialized")
  ELSE IF R.isRecording THEN Throw(S, "Already recording")
  ELSE [S EXCEPT
          !.inputGainOut = @ \cup {Node("worklet", r)},
          !.recorders[r].isRecording = TRUE,
          !.recorders[r].recordingStartTime = S.currentTime,
          !.recorders[r].toProc =
             Append(@, [type |-> "start", channelCount |-> channelCount])]

ABRStop(S, r) ==
  LET R == S.recorders[r] IN
  IF ~R.isRecording \/ ~R.workletNode THEN S
  ELSE [S EXCEPT
          !.recorders[r].isRecording = FALSE,
          !.recorders[r].toProc = Append(@, [type |-> "stop", channelCount |-> 0]),
          !.inputGainOut = @ \ {Node("worklet", r)}]

ABRDispose(S, r) == [ABRStop(S, r) EXCEPT !.recorders[r].workletNode = FALSE]

ABRHandleProgress(S, r) ==
  LET R == S.recorders[r] IN
  IF ~R.isRecording THEN S
  ELSE InvokeProgress(S, R.onProgress, S.currentTime - R.recordingStartTime)

RECURSIVE Concat(_, _)
\* channel ch of every chunk, one after the other
Concat(chunks, ch) ==
  IF chunks = << >> THEN << >>
  ELSE (IF ch <= Len(Head(chunks).channelData)
        THEN Head(chunks).channelData[ch]
        ELSE Zeros(Len(Head(chunks).channelData[1])))
       \o Concat(Tail(chunks), ch)

ABRHandleRecordingComplete(S, r, recordedData) ==
  IF Len(recordedData) = 0 THEN S
  ELSE LET numberOfChannels == Len(recordedData[1].channelData)
           channelData == [ch \in 1..numberOfChannels |-> Concat(recordedData, ch)]
           buffer == [sampleRate |-> SampleRate,
                      numberOfChannels |-> numberOfChannels,
                      length |-> Len(channelData[1]),
                      channelData |-> channelData]
       IN InvokeComplete(S, S.recorders[r].onComplete, buffer)

\* this.workletNode.port.onmessage
ABROnMessage(S, r, msg) ==
  IF msg.type = "progress" THEN ABRHandleProgress(S, r)
  ELSE ABRHandleRecordingComplete(S, r, msg.data)

---------------------------------------------------------------------------
(* MediaRecorderWrapper, and the platform's MediaRecorder objects           *)

FreeMR == [state |-> "free", owner |-> 0, pendingData |-> 0, job |-> << >>]

\* MediaRecorder.state as the platform reports it
MRState(S, m) == IF S.mrs[m].state = "recording" THEN "recording" ELSE "inactive"

MRWInitialize(S, r) == S

MRWCleanup(S, r) ==
  LET R == S.recorders[r] IN
  [S EXCEPT !.inputGainOut = {},
            !.recorders[r].mediaStream = FALSE,
            !.recorders[r].recordedChunks = IF ~R.isProcessing THEN << >> ELSE @,
            !.recorders[r].mediaRecorder = 0]

\* start(), on a platform where the step `fail` throws ("none": no step does);
\* m is the MediaRecorder object the constructor returns
MRWStart(S, r, channelCount, fail, m) ==
  LET R == S.recorders[r] IN
  IF R.isRecording THEN Throw(S, "Already recording")
  ELSE
    LET S1 == [S EXCEPT !.recorders[r].channelCount = channelCount,
                        !.inputGainOut = @ \cup {Node("mediaDest", m)},
                        !.recorders[r].mediaStream = TRUE]
    IN IF fail = "create"
       THEN Throw(MRWCleanup(S1, r), "MediaRecorder is not supported")
       ELSE
         LET S2 == [S1 EXCEPT !.recorders[r].mediaRecorder = m,
                              !.recorders[r].recordedChunks = << >>,
                              !.recorders[r].isRecording = TRUE,
                              !.recorders[r].recordingStartTime = S.currentTime]
         IN IF fail = "start"
            THEN Throw(MRWCleanup(S2, r), "MediaRecorder failed to start")
            ELSE [S2 EXCEPT !.mrs[m] = [FreeMR EXCEPT !.state = "recording",
                                                      !.owner = r],
                            !.recorders[r].progressInterval = TRUE]

\* stop() that runs processRecording() itself instead of leaving it to onstop
MRWStopProcessesAtOnce(S, r) ==
  LET R == S.recorders[r] IN
  IF ~R.isRecording \/ R.mediaRecorder = 0 THEN S
  ELSE LET S1 == [S EXCEPT !.recorders[r].isRecording = FALSE,
                           !.recorders[r].progressInterval = FALSE]
           m == R.mediaRecorder
       IN IF MRState(S, m) # "inactive"
          THEN [S1 EXCEPT !.recorders[r].isProcessing = TRUE,
                          !.mrs[m].state = "decoding",
                          !.mrs[m].pendingData = 2,
                          !.mrs[m].job = R.recordedChunks,
                          !.recorders[r].recordedChunks = << >>]
          ELSE S1

MRWStop(S, r) ==
  LET R == S.recorders[r] IN
  IF ~R.isRecording \/ R.mediaRecorder = 0 THEN S
  ELSE LET S1 == [S EXCEPT !.recorders[r].isRecording = FALSE,
                           !.recorders[r].progressInterval = FALSE]
           m == R.mediaRecorder
       IN IF MRState(S, m) # "inactive"
          THEN [S1 EXCEPT !.recorders[r].isProcessing = TRUE,
                          \* requestData() and stop(): two dataavailable
                          \* events and then the stop event
                          !.mrs[m].state = "stopping",
                          !.mrs[m].pendingData = 2]
          ELSE S1

\* dispose() without the test of isProcessing
MRWDisposeAtOnce(S, r) == MRWCleanup(MRWStop(S, r), r)

MRWDispose(S, r) ==
  IF S.recorders[r].isProcessing THEN S
  ELSE MRWCleanup(MRWStop(S, r), r)

\* mediaRecorder.ondataavailable
MRWOnDataAvailable(S, m, blob) ==
  IF blob.size > 0
  THEN [S EXCEPT !.recorders[S.mrs[m].owner].recordedChunks = Append(@, blob)]
  ELSE S

\* mediaRecorder.onstop: processRecording() up to its first await
MRWOnStop(S, m) ==
  LET r == S.mrs[m].owner
      R == S.recorders[r]
  IN IF Len(R.recordedChunks) = 0
     THEN Emit([S EXCEPT !.recorders[r].isProcessing = FALSE,
                         !.mrs[m].state = "inactive"],
               Ev("console", r, "No recorded chunks to process"))
     ELSE [S EXCEPT !.mrs[m].state = "decoding",
                    !.mrs[m].job = R.recordedChunks,
                    !.recorders[r].recordedChunks = << >>]

\* what decodeAudioData makes of the concatenated chunks
Decoded(job) ==
  LET n == Len(job) * BlobFrames IN
  [sampleRate |-> SampleRate, numberOfChannels |-> 2, length |-> n,
   channelData |-> [c \in 1..2 |-> [i \in 1..n |-> Sample(job[1].mr, c, i)]]]

\* processRecording() from the end of decodeAudioData on, where a failed
\* decode still hands what it has to the complete callback
MRWProcessedDeliversAnyway(S, m, ok) ==
  LET r == S.mrs[m].owner
      S1 == [S EXCEPT !.mrs[m].state = "inactive", !.mrs[m].job = << >>]
      S2 == IF ok THEN S1
            ELSE Emit(S1, Ev("console", r, "Error processing recording"))
      S3 == InvokeComplete(S2, S2.recorders[r].onComplete, Decoded(S.mrs[m].job))
      S4 == [S3 EXCEPT !.recorders[r].isProcessing = FALSE]
  IN MRWCleanup(S4, r)

\* processRecording() from the end of decodeAudioData on: the decode
\* succeeded (ok) or threw
MRWProcessed(S, m, ok) ==
  LET r == S.mrs[m].owner
      S1 == [S EXCEPT !.mrs[m].state = "inactive", !.mrs[m].job = << >>]
      S2 == IF ok
            THEN InvokeComplete(S1, S1.recorders[r].onComplete, Decoded(S.mrs[m].job))
            ELSE Emit(S1, Ev("console", r, "Error processing recording"))
      S3 == [S2 EXCEPT !.recorders[r].isProcessing = FALSE]
  IN MRWCleanup(S3, r)

\* the interval of startProgressReporting
MRWProgressTick(S, r) ==
  LET R == S.recorders[r] IN
  IF R.isRecording
  THEN InvokeProgress(S, R.onProgress, S.currentTime - R.recordingStartTime)
  ELSE S

---------------------------------------------------------------------------
(* Dispatch on the class of the strategy object *)

FreeMRIds(S) == { m \in MRIds : S.mrs[m].state = "free" }
NewMR(S) == CHOOSE m \in FreeMRIds(S) : \A n \in FreeMRIds(S) : m <= n

\* the steps of MediaRecorderWrapper.start() the platform may fail
StartFailures == {"none", "create", "start"}

RecStart(S, r, channelCount, fail) ==
  LET k == S.recorders[r].kind IN
  IF k = "media" THEN MRWStart(S, r, channelCount, fail, NewMR(S))
  ELSE IF k = "worklet" THEN ABRStart(S, r, channelCount)
  ELSE SPStart(S, r, channelCount)

RecStop(S, r) ==
  LET k == S.recorders[r].kind IN
  IF k = "media" THEN MRWStop(S, r)
  ELSE IF k = "worklet" THEN ABRStop(S, r)
  ELSE SPStop(S, r)

RecDispose(S, r) ==
  LET k == S.recorders[r].kind IN
  IF k = "media" THEN MRWDispose(S, r)
  ELSE IF k = "worklet" THEN ABRDispose(S, r)
  ELSE SPDispose(S, r)

---------------------------------------------------------------------------
(* PlaybackManager *)

\* stop(): every source of the map is stopped (its 'ended' event follows
\* later) and the map is cleared
PMStop(S) ==
  [S EXCEPT !.voices = [t \in TrackIds |->
                          IF t \in S.playbackSources THEN @[t] - 1 ELSE @[t]],
            !.pendingEnded = [t \in TrackIds |->
                          IF t \in S.playbackSources THEN @[t] + 1 ELSE @[t]],
            !.playbackSources = {}]

\* the tracks start() makes a source for
Playable(S) ==
  { t \in TrackIds : /\ S.tracks[t].audioBuffer # NoBuffer
                     /\ ~S.tracks[t].isMuted
                     /\ t \in DOMAIN S.trackGain }

\* start(): the state after it, and the number of voices it returns
PMStart(S) ==
  LET S1 == PMStop(S)
      P == Playable(S1)
      S2 == [S1 EXCEPT
               !.voices = [t \in TrackIds |-> IF t \in P THEN @[t] + 1 ELSE @[t]],
               !.playbackSources = P,
               !.tracks = [t \in TrackIds |->
                  IF t \in P THEN [@[t] EXCEPT !.isPlaying = TRUE] ELSE @[t]]]
  IN Emit(S2, Ev("return", Cardinality(P), "PlaybackManager.start"))

---------------------------------------------------------------------------
(* AudioNodeManager *)

\* Math.max(lo, Math.min(hi, x))
Clamp(x, lo, hi) == IF x < lo THEN lo ELSE IF x > hi THEN hi ELSE x

\* createTrackNodes(4): every gain node starts at 1
NMCreateTrackNodes(S) == [S EXCEPT !.trackGain = [t \in TrackIds |-> FullVolume]]

\* setTrackGain(trackId, gain): setValueAtTime at the current time
NMSetTrackGain(S, trackId, gain) ==
  IF trackId \in DOMAIN S.trackGain
  THEN [S EXCEPT !.trackGain[trackId] = Clamp(gain, 0, FullVolume)]
  ELSE S

NMDispose(S) == [S EXCEPT !.inputGainOut = {}, !.trackGain = NoTrackNodes]

---------------------------------------------------------------------------
(* The node graph downstream of inputGain *)

Destination == Node("destination", 0)

\* what a node that inputGain feeds is itself connected to: the script
\* processor to its silent gain and that to the destination; the input
\* analyser, the worklet node and a MediaStreamDestination to nothing
NodeOutputs(n) ==
  IF n.node = "silentProcessor" THEN {Node("silentGain", n.id)}
  ELSE IF n.node = "silentGain" THEN {Destination}
  ELSE {}

\* the silent gain left at the default gain of a new GainNode
NodeGainDefault(n) == 1

\* 0 where the node passes no signal
NodeGain(n) == IF n.node = "silentGain" THEN 0 ELSE 1

\* signal entering node n is heard at the destination
Heard(n) ==
  \/ n = Destination
  \/ /\ NodeGain(n) # 0
     /\ \E o \in NodeOutputs(n) :
          \/ o = Destination
          \/ /\ NodeGain(o) # 0
             /\ Destination \in NodeOutputs(o)

---------------------------------------------------------------------------
(* LevelMonitor *)

\* no LevelMonitor has been constructed
NoLevelMonitor ==
  [ constructed |-> FALSE,
    isActive |-> FALSE,
    onLevelUpdate |-> NoCallback,
    animationFrameId |-> 0,       \* 0 is null
    inputAnalyser |-> FALSE,      \* LevelMonitor.inputAnalyser !== null
    frames |-> {} ]               \* requested animation frames not yet run

NewLevelMonitor(inputAnalyser) ==
  [NoLevelMonitor EXCEPT !.constructed = TRUE, !.inputAnalyser = inputAnalyser]

\* the n-th callback of a test, and the callback of setupLevelMonitoring()
LevelCallback(n) == [kind |-> "test", track |-> n]
EngineLevelCallback == [kind |-> "engine", track |-> 0]

FrameIds == 1..MaxFrames
\* requestAnimationFrame hands out an id that is not in use
NewFrame(L) == CHOOSE id \in FrameIds \ L.frames :
                 \A other \in FrameIds \ L.frames : id <= other

LMStop(S) ==
  LET L == S.levelMonitor IN
  [S EXCEPT !.levelMonitor =
     IF L.animationFrameId # 0
     THEN [L EXCEPT !.isActive = FALSE,
                    !.frames = @ \ {L.animationFrameId},
                    !.animationFrameId = 0]
     ELSE [L EXCEPT !.isActive = FALSE]]

LMSetInputAnalyser(S, analyser) == [S EXCEPT !.levelMonitor.inputAnalyser = analyser]

\* this.onLevelUpdate?.(levels): the engine emits the snapshot; a test's
\* callback records it and may call stop() before it returns
InvokeLevel(S, cb, inner) ==
  LET levels == IF S.levelMonitor.inputAnalyser THEN "input" ELSE "" IN
  IF cb.kind = "engine" THEN Emit(S, Ev("levelUpdate", 0, levels))
  ELSE IF cb.kind = "test"
  THEN LET S1 == Emit(S, Ev("level", cb.track, levels))
       IN IF inner = "stop" THEN LMStop(Emit(S1, Ev("op", 0, "LevelMonitor.stop")))
          ELSE S1
  ELSE S

\* monitor() without the test of isActive
LMMonitorAlways(S, inner) ==
  LET S1 == InvokeLevel(S, S.levelMonitor.onLevelUpdate, inner)
      id == NewFrame(S1.levelMonitor)
  IN [S1 EXCEPT !.levelMonitor.animationFrameId = id,
                !.levelMonitor.frames = @ \cup {id}]

LMMonitor(S, inner) ==
  IF ~S.levelMonitor.isActive THEN S
  ELSE LET S1 == InvokeLevel(S, S.levelMonitor.onLevelUpdate, inner)
           id == NewFrame(S1.levelMonitor)
       IN [S1 EXCEPT !.levelMonitor.animationFrameId = id,
                     !.levelMonitor.frames = @ \cup {id}]

\* start() without the test of isActive
LMStartAgain(S, callback, inner) ==
  LMMonitor([S EXCEPT !.levelMonitor.isActive = TRUE,
                      !.levelMonitor.onLevelUpdate = callback], inner)

LMStart(S, callback, inner) ==
  IF S.levelMonitor.isActive THEN S
  ELSE LMMonitor([S EXCEPT !.levelMonitor.isActive = TRUE,
                           !.levelMonitor.onLevelUpdate = callback], inner)

LMDispose(S) == LMStop(S)

---------------------------------------------------------------------------
(* AudioEngine *)

SetState(S, s) == Emit([S EXCEPT !.state = s], Ev("stateChanged", 0, s))

Cleanup(S) ==
  LET S1 == IF S.inputSource # 0
            THEN [S EXCEPT !.inputSources = @ \ {S.inputSource},
                           !.inputGainOut = @ \ {Node("inputAnalyser", 0)},
                           !.inputSource = 0]
            ELSE S
  IN IF S1.mediaStream # 0
     THEN [S1 EXCEPT !.streams = @ \ {S1.mediaStream}, !.mediaStream = 0]
     ELSE S1

\* the node manager's inputAnalyser is never null
SetupLevelMonitoring(S) ==
  IF S.audioContext = "null" THEN S
  ELSE LMStart([S EXCEPT !.levelMonitor = NewLevelMonitor(TRUE)],
               EngineLevelCallback, "none")

\* initialize(); ok: the platform lets the AudioContext be created
EngineInitialize(S, ok) ==
  LET S0 == Emit(S, Ev("op", 0, "initialize")) IN
  IF ok
  THEN Emit(SetupLevelMonitoring(
              NMCreateTrackNodes([S0 EXCEPT !.audioContext = "running"])),
            Ev("initialized", 0, ""))
  ELSE Throw(Emit(S0, Ev("error", 0, "Failed to initialize audio context")),
             "AudioContext is not supported")

\* the catch block of startRecording()
StartRecordingCatch(S, slot, error) ==
  LET S1 == Cleanup(S)
      S2 == Emit(S1, Ev("error", 0, error))
  IN Throw([S2 EXCEPT !.calls[slot] = NoCall], error)

\* startRecording() with the guards inside the try block
StartRecordingGuardedInTry(S, trackId, slot) ==
  LET S0 == Emit(S, Ev("op", trackId, "startRecording")) IN
  IF S.audioContext # "running"
  THEN StartRecordingCatch(S0, slot, "Audio engine not initialized")
  ELSE IF S.recorder # 0
  THEN StartRecordingCatch(S0, slot, "Recording already in progress")
  ELSE [S0 EXCEPT !.calls[slot] = [pc |-> "media", trackId |-> trackId,
                                   result |-> ""]]

\* startRecording() up to its first await; slot is where the call is kept
\* while it waits
StartRecording(S, trackId, slot) ==
  LET S0 == Emit(S, Ev("op", trackId, "startRecording")) IN
  IF S.audioContext # "running" THEN Throw(S0, "Audio engine not initialized")
  ELSE IF S.recorder # 0 THEN Throw(S0, "Recording already in progress")
  ELSE [S0 EXCEPT !.calls[slot] = [pc |-> "media", trackId |-> trackId,
                                   result |-> ""]]

\* createRecorder() trying the low-latency strategy first
CreateRecorderWorkletFirst(S, r, workletOk) ==
  IF S.audioContext = "null" THEN S
  ELSE
    LET S1 == [S EXCEPT !.recorders[r] = [FreshRecorder EXCEPT !.kind = "worklet"],
                        !.recorder = r]
        S2 == ABRInitialize(S1, r, workletOk)
    IN IF S2.err = "" THEN S2
       ELSE MRWInitialize([S EXCEPT !.recorders[r] = [FreshRecorder EXCEPT !.kind = "media"],
                                    !.recorder = r], r)

\* createRecorder() up to the await of initialize(); r is the new object
CreateRecorder(S, r, workletOk) ==
  IF S.audioContext = "null" THEN S
  ELSE
    LET S1 == [S EXCEPT !.recorders[r] = [FreshRecorder EXCEPT !.kind = "media"],
                        !.recorder = r]
        S2 == MRWInitialize(S1, r)
    IN IF S2.err = "" THEN S2
       ELSE
         LET S3 == [S EXCEPT !.recorders[r] = [FreshRecorder EXCEPT !.kind = "worklet"],
                             !.recorder = r]
             S4 == ABRInitialize(S3, r, workletOk)
         IN IF S4.err = "" THEN S4
            ELSE [S EXCEPT !.recorders[r] = [FreshRecorder EXCEPT !.kind = "script"],
                           !.recorder = r]

\* startRecording() from the end of getUserMedia to the await of
\* createRecorder(); ok: the device was granted, as stream s
GotUserMedia(S, slot, ok, s, r) ==
  LET S0 == Emit(S, Ev("resume", S.calls[slot].trackId, "startRecording")) IN
  IF ~ok THEN StartRecordingCatch(S0, slot, "Permission denied")
  ELSE
    LET S1 == [S0 EXCEPT !.streams = @ \cup {s}, !.mediaStream = s]
    IN IF S1.audioContext # "running"
       THEN StartRecordingCatch(S1, slot, "TypeError")
       ELSE
         LET S2 == [S1 EXCEPT !.inputSource = s,
                              !.inputSources = @ \cup {s},
                              !.inputGainOut = @ \cup {Node("inputAnalyser", 0)}]
             S3 == CreateRecorder(S2, r, TRUE)
         IN [S3 EXCEPT !.calls[slot].pc = "init"]

SetupRecorderCallbacks(S, trackId) ==
  IF S.recorder = 0 THEN S
  ELSE [S EXCEPT !.recorders[S.recorder].onProgress = EngineCallback(trackId),
                 !.recorders[S.recorder].onComplete = EngineCallback(trackId)]

\* startRecording() from the end of createRecorder() to the await of
\* recorder.start(); fail: the step of start() the platform fails
RecorderCreated(S, slot, fail) ==
  LET trackId == S.calls[slot].trackId
      S0 == Emit(S, Ev("resume", trackId, "startRecording"))
      S1 == SetupRecorderCallbacks(S0, trackId)
  IN IF S1.recorder = 0 THEN StartRecordingCatch(S1, slot, "TypeError")
     ELSE LET S2 == RecStart(S1, S1.recorder, NumberOfChannels, fail)
          IN [S2 EXCEPT !.calls[slot].pc = "start",
                        !.calls[slot].result = S2.err,
                        !.err = ""]

\* startRecording() from the end of recorder.start() on
StartResolved(S, slot) ==
  LET trackId == S.calls[slot].trackId
      S0 == Emit(S, Ev("resume", trackId, "startRecording"))
  IN IF S.calls[slot].result # ""
     THEN StartRecordingCatch(S0, slot, S.calls[slot].result)
     ELSE LET S1 == SetState([S0 EXCEPT !.currentRecordingTrack = trackId],
                             "recording")
              S2 == IF trackId \in TrackIds
                    THEN [S1 EXCEPT !.tracks[trackId].isRecording = TRUE]
                    ELSE S1
          IN [S2 EXCEPT !.calls[slot] = NoCall]

StopRecording(S) ==
  LET S0 == Emit(S, Ev("op", 0, "stopRecording")) IN
  IF S.recorder = 0 THEN S0
  ELSE LET S1 == RecStop(S0, S0.recorder)
           t == S1.currentRecordingTrack
           S2 == IF t \in TrackIds
                 THEN [S1 EXCEPT !.tracks[t].isRecording = FALSE]
                 ELSE S1
       IN SetState(S2, "idle")

StartPlayback(S) ==
  LET S0 == Emit(S, Ev("op", 0, "startPlayback")) IN
  IF S.audioContext # "running" THEN Throw(S0, "Audio engine not initialized")
  ELSE LET S1 == PMStart(S0)
           activeCount == Cardinality(Playable(S0))
       IN IF activeCount > 0 THEN SetState(S1, "playing") ELSE S1

StopPlayback(S) ==
  LET S0 == Emit(S, Ev("op", 0, "stopPlayback")) IN
  IF S.audioContext = "null" THEN S0
  ELSE LET S1 == PMStop(S0)
           S2 == [S1 EXCEPT !.tracks = [t \in TrackIds |->
                                          [@[t] EXCEPT !.isPlaying = FALSE]]]
       IN SetState(S2, "stopped")

\* source.onended of a source made for track t, and the end callback the
\* engine registered in initialize()
SourceEnded(S, t) ==
  LET S0 == Emit(S, Ev("op", t, "ended"))
      S1 == [S0 EXCEPT !.playbackSources = @ \ {t},
                       !.tracks[t].isPlaying = FALSE]
  IN IF S1.playbackSources = {} /\ S1.audioContext = "running"
     THEN SetState(Emit(S1, Ev("onEnded", t, "")), "stopped")
     ELSE S1

\* updateTrackGain() with the mute flag left out
UpdateTrackGainIgnoringMute(S, trackId) ==
  IF trackId \notin TrackIds \/ S.audioContext = "null" THEN S
  ELSE LET track == S.tracks[trackId]
           hasSolo == \E t \in TrackIds : S.tracks[t].isSolo
           gain == IF hasSolo /\ ~track.isSolo THEN 0 ELSE track.volume
       IN NMSetTrackGain(S, trackId, gain)

UpdateTrackGain(S, trackId) ==
  IF trackId \notin TrackIds \/ S.audioContext = "null" THEN S
  ELSE LET track == S.tracks[trackId]
           hasSolo == \E t \in TrackIds : S.tracks[t].isSolo
           gain == IF track.isMuted \/ (hasSolo /\ ~track.isSolo)
                   THEN 0 ELSE track.volume
       IN NMSetTrackGain(S, trackId, gain)

\* this.tracks.forEach((_, id) => this.updateTrackGain(id)), from track id on
RECURSIVE UpdateTrackGainsFrom(_, _)
UpdateTrackGainsFrom(S, id) ==
  IF id > NumTracks THEN S
  ELSE UpdateTrackGainsFrom(UpdateTrackGain(S, id), id + 1)

SetTrackVolume(S, trackId, volume) ==
  LET S0 == Emit(S, Ev("op", trackId, "setTrackVolume")) IN
  IF trackId \in TrackIds /\ S.audioContext # "null"
  THEN UpdateTrackGain([S0 EXCEPT !.tracks[trackId].volume =
                                     Clamp(volume, 0, FullVolume)], trackId)
  ELSE S0

MuteTrack(S, trackId, mute) ==
  LET S0 == Emit(S, Ev("op", trackId, "muteTrack")) IN
  IF trackId \in TrackIds
  THEN UpdateTrackGain([S0 EXCEPT !.tracks[trackId].isMuted = mute], trackId)
  ELSE S0

\* soloTrack() that brings only its own track's gain up to date
SoloTrackOwnGainOnly(S, trackId, solo) ==
  LET S0 == Emit(S, Ev("op", trackId, "soloTrack")) IN
  IF trackId \in TrackIds
  THEN UpdateTrackGain([S0 EXCEPT !.tracks[trackId].isSolo = solo], trackId)
  ELSE S0

SoloTrack(S, trackId, solo) ==
  LET S0 == Emit(S, Ev("op", trackId, "soloTrack")) IN
  IF trackId \in TrackIds
  THEN UpdateTrackGainsFrom([S0 EXCEPT !.tracks[trackId].isSolo = solo], 1)
  ELSE S0

ProcessRecordingBuffer(S, trackId, buffer) ==
  IF S.audioContext # "running" THEN S
  ELSE IF buffer.length = 0 THEN S   \* createBuffer throws NotSupportedError
  ELSE IF trackId \notin TrackIds THEN S
  ELSE LET S1 == Emit([S EXCEPT !.tracks[trackId].audioBuffer = buffer],
                      Ev("recordingComplete", trackId, ""))
           S2 == IF S1.recorder # 0
                 THEN [RecDispose(S1, S1.recorder) EXCEPT !.recorder = 0]
                 ELSE S1
       IN Cleanup(S2)

EngineDispose(S) ==
  LET S0 == Emit(S, Ev("op", 0, "dispose"))
      S1 == Cleanup(StopPlayback(StopRecording(S0)))
      S2 == IF S1.audioContext = "null" THEN S1
            ELSE NMDispose(PMStop(LMDispose(S1)))
  IN [S2 EXCEPT !.audioContext = IF @ = "null" THEN @ ELSE "closed"]

---------------------------------------------------------------------------
(* Callbacks *)

\* the callbacks of a test, and those of setupRecorderCallbacks(trackId)
InvokeProgress(S, cb, elapsed) ==
  IF cb.kind = "test" THEN Emit(S, Ev("progress", elapsed, ""))
  ELSE IF cb.kind = "engine"
  THEN LET S1 == Emit(S, Ev("recordingProgress", cb.track, ""))
       IN IF elapsed >= MaxRecordingTime THEN StopRecording(S1) ELSE S1
  ELSE S

InvokeComplete(S, cb, buffer) ==
  IF cb.kind = "test"
  THEN Emit([S EXCEPT !.hCompletes = @ + 1, !.hLast = buffer],
            Ev("complete", buffer.length, ""))
  ELSE IF cb.kind = "engine"
  THEN ProcessRecordingBuffer(Emit(S, Ev("onComplete", cb.track, "")),
                              cb.track, buffer)
  ELSE S

---------------------------------------------------------------------------
(* Garbage, and what every step ends with *)

\* A strategy object is reachable from the engine, from the test that made
\* it, or from a MediaRecorder that still has events to deliver to it; a
\* MediaRecorder that has nothing more to deliver is reachable from its
\* wrapper only.
Collect(S) ==
  LET live(r) ==
        \/ r = S.recorder
        \/ S.recorders[r].onComplete.kind = "test"
        \/ \E m \in MRIds : /\ S.mrs[m].owner = r
                            /\ S.mrs[m].state \in {"recording", "stopping", "decoding"}
      recs == [r \in RecIds |-> IF live(r) THEN S.recorders[r] ELSE FreshRecorder]
  IN [S EXCEPT !.recorders = recs,
               !.mrs = [m \in MRIds |->
                  IF /\ S.mrs[m].state = "inactive"
                     /\ \A r \in RecIds : recs[r].mediaRecorder # m
                  THEN FreeMR ELSE S.mrs[m]]]

\* a thrown error reaches the caller
Outcome(S) == IF S.err = "" THEN S ELSE Emit(S, Ev("throw", 0, S.err))

Step(S) == Apply(Collect(S))

---------------------------------------------------------------------------
(* The capture harness: a caller that drives one capture strategy directly, *)
(* and the platform that feeds it.                                          *)

Returned(S, op) ==
  IF S.err = "" THEN Emit(S, Ev("return", 0, op)) ELSE Emit(S, Ev("throw", 0, S.err))

\* initialize(); ScriptProcessorRecorder has no such method
HInitialize(r, ok) ==
  /\ \/ /\ recorders[r].kind = "worklet"
        /\ ~recorders[r].workletNode
        /\ recorders[r].toProc = << >> /\ recorders[r].toMain = << >>
     \/ /\ recorders[r].kind = "media"
        /\ ~recorders[r].hInitialized
        /\ ok
  /\ LET S1 == IF recorders[r].kind = "worklet" THEN ABRInitialize(St, r, ok)
               ELSE MRWInitialize(St, r)
         S2 == IF S1.err = "" THEN [S1 EXCEPT !.recorders[r].hInitialized = TRUE]
               ELSE S1
     IN Step(Returned(S2, "initialize"))

\* start(); the bound is on the calls that begin a session
HStart(r, channelCount, fail) ==
  /\ recorders[r].kind # "none"
  /\ hSessions < MaxSessions \/ recorders[r].isRecording
  /\ recorders[r].kind = "media" => FreeMRIds(St) # {}
  /\ recorders[r].kind # "media" => fail = "none"
  /\ LET S1 == RecStart(St, r, channelCount, fail)
         S2 == IF S1.err = "" THEN [S1 EXCEPT !.hSessions = @ + 1] ELSE S1
     IN Step(Returned(S2, "start"))

\* the harness notes a call that stopped a recording
NoteStop(S0, S1, r) ==
  IF S0.recorders[r].isRecording /\ ~S1.recorders[r].isRecording
  THEN [S1 EXCEPT !.hStops = @ + 1,
                  !.hStopElapsed = S0.currentTime - S0.recorders[r].recordingStartTime]
  ELSE S1

HStop(r) ==
  /\ recorders[r].kind # "none"
  /\ Step(Returned(NoteStop(St, RecStop(St, r), r), "stop"))

HDispose(r) ==
  /\ recorders[r].kind # "none"
  /\ Step(Returned(NoteStop(St, RecDispose(St, r), r), "dispose"))

Tick ==
  /\ currentTime < MaxClock
  /\ Step([St EXCEPT !.currentTime = @ + 1])

AudioProcess(r) ==
  /\ recorders[r].kind = "script"
  /\ recorders[r].processor
  /\ blockCount < MaxBlocks
  /\ \E block \in InputBlocks(blockCount + 1, recorders[r].processorChannels) :
       Step(SPOnAudioProcess(St, r, block))

\* a render quantum reaches the worklet processor
WorkletProcess(r) ==
  /\ recorders[r].kind = "worklet"
  /\ Node("worklet", r) \in inputGainOut
  /\ blockCount < MaxBlocks
  /\ \E block \in InputBlocks(blockCount + 1, 2) :
       Step(ProcProcess(St, r, block))

\* the processor takes the next message of its port
ProcDeliver(r) ==
  /\ recorders[r].toProc # << >>
  /\ LET msg == Head(recorders[r].toProc)
         S1 == [St EXCEPT !.recorders[r].toProc = Tail(@)]
     IN Step(ProcOnMessage(S1, r, msg))

\* the main thread takes the next message of the node's port
MainDeliver(r) ==
  /\ recorders[r].toMain # << >>
  /\ LET msg == Head(recorders[r].toMain)
         S1 == [St EXCEPT !.recorders[r].toMain = Tail(@)]
     IN Step(ABROnMessage(S1, r, msg))

Blob(m, size) == [mr |-> m, size |-> size]

\* the MediaRecorder delivers a time slice
MRTimeslice(m) ==
  /\ mrs[m].state = "recording"
  /\ Len(recorders[mrs[m].owner].recordedChunks) < MaxChunks
  /\ Step(MRWOnDataAvailable(St, m, Blob(m, 1)))

\* the MediaRecorder delivers what requestData() and stop() asked for
MRFlush(m) ==
  /\ mrs[m].state = "stopping"
  /\ mrs[m].pendingData > 0
  /\ \E size \in {0, 1} :
       /\ size > 0 => Len(recorders[mrs[m].owner].recordedChunks) < MaxChunks
       /\ Step(MRWOnDataAvailable([St EXCEPT !.mrs[m].pendingData = @ - 1],
                                  m, Blob(m, size)))

MRStopEvent(m) ==
  /\ mrs[m].state = "stopping"
  /\ mrs[m].pendingData = 0
  /\ Step(MRWOnStop(St, m))

MRDecodeDone(m) ==
  /\ mrs[m].state = "decoding"
  /\ \E ok \in BOOLEAN : Step(MRWProcessed(St, m, ok))

ProgressTimer(r) ==
  /\ recorders[r].progressInterval
  /\ Step(MRWProgressTick(St, r))

InitCommon ==
  /\ levelMonitor \in {NoLevelMonitor} \cup {NewLevelMonitor(a) : a \in BOOLEAN}
  /\ currentTime = 0
  /\ inputBuffer = << >>
  /\ blockCount = 0
  /\ streams = {}
  /\ mrs = [m \in MRIds |-> FreeMR]
  /\ inputSources = {}
  /\ inputGainOut = {}
  /\ audioContext = "null"
  /\ state = "idle"
  /\ tracks = [t \in TrackIds |-> FreshTrack]
  /\ mediaStream = 0
  /\ inputSource = 0
  /\ recorder = 0
  /\ currentRecordingTrack = 0
  /\ calls = [i \in CallIds |-> NoCall]
  /\ playbackSources = {}
  /\ voices = [t \in TrackIds |-> 0]
  /\ pendingEnded = [t \in TrackIds |-> 0]
  /\ events = << >>
  /\ hSessions = 0
  /\ hStops = 0
  /\ hStopElapsed = 0
  /\ hCompletes = 0
  /\ hLast = NoBuffer
  /\ trackGain = NoTrackNodes
  /\ hMixedEarly = FALSE

\* A test constructs one strategy and registers its callbacks.
InitCapture ==
  /\ InitCommon
  /\ levelMonitor = NoLevelMonitor
  /\ \E k \in {"media", "worklet", "script"} :
       recorders = [r \in RecIds |->
          IF r = 1 THEN [FreshRecorder EXCEPT !.kind = k,
                                              !.onProgress = TestCallback,
                                              !.onComplete = TestCallback]
          ELSE FreshRecorder]

NextCapture ==
  \/ \E ok \in BOOLEAN : HInitialize(1, ok)
  \/ \E c \in ChannelCounts, fail \in StartFailures : HStart(1, c, fail)
  \/ HStop(1)
  \/ HDispose(1)
  \/ Tick
  \/ AudioProcess(1)
  \/ WorkletProcess(1)
  \/ ProcDeliver(1)
  \/ MainDeliver(1)
  \/ \E m \in MRIds : MRTimeslice(m)
  \/ \E m \in MRIds : MRFlush(m)
  \/ \E m \in MRIds : MRStopEvent(m)
  \/ \E m \in MRIds : MRDecodeDone(m)
  \/ ProgressTimer(1)

SpecCapture == InitCapture /\ [][NextCapture]_vars

---------------------------------------------------------------------------
(* The engine with its callers and the platform.  Error events of a         *)
(* MediaRecorder and a second initialize() are not part of the model.       *)

InitEngine ==
  /\ InitCommon
  /\ levelMonitor = NoLevelMonitor
  /\ recorders = [r \in RecIds |-> FreshRecorder]

Lowest(ids) == CHOOSE x \in ids : \A y \in ids : x <= y

FreeSlots == { i \in CallIds : calls[i].pc = "none" }
FreeStreams == (1..MaxStreams) \ streams
FreeRecIds == { r \in RecIds : recorders[r].kind = "none" }

\* The continuations after `await createRecorder()` and `await
\* recorder.start()` are microtasks: callers' code may run between them, the
\* platform's events and timers may not.
NoMicrotask == \A i \in CallIds : calls[i].pc \in {"none", "media"}

\* the bounds leave room for the sources stop() stops
StopRoom == \A t \in playbackSources : pendingEnded[t] < MaxPendingEnded

\* ... and for the sources start() starts
StartRoom ==
  \A t \in Playable(St) :
     voices[t] - (IF t \in playbackSources THEN 1 ELSE 0) < MaxVoices

\* the clock is read by a recording strategy only, so the model lets it
\* advance only while one records
ClockObserved == \E r \in RecIds : recorders[r].isRecording

Initialize ==
  /\ audioContext = "null"
  /\ \E ok \in BOOLEAN : Step(Outcome(EngineInitialize(St, ok)))

StartRecordingCall ==
  /\ FreeSlots # {}
  /\ hSessions < MaxStartRecordings
  /\ \E t \in CallerTrackIds :
       LET S1 == StartRecording(St, t, Lowest(FreeSlots))
           S2 == IF S1.err = "" THEN [S1 EXCEPT !.hSessions = @ + 1] ELSE S1
       IN Step(Outcome(S2))

UserMediaSettled(i) ==
  /\ calls[i].pc = "media"
  /\ NoMicrotask
  /\ FreeStreams # {}
  /\ FreeRecIds # {}
  /\ \E ok \in BOOLEAN :
       Step(Outcome(GotUserMedia(St, i, ok, Lowest(FreeStreams), Lowest(FreeRecIds))))

RecorderReady(i) ==
  /\ calls[i].pc = "init"
  /\ FreeMRIds(St) # {}
  /\ \E fail \in StartFailures : Step(Outcome(RecorderCreated(St, i, fail)))

StartSettled(i) ==
  /\ calls[i].pc = "start"
  /\ Step(Outcome(StartResolved(St, i)))

StopRecordingCall == Step(Outcome(StopRecording(St)))

StartPlaybackCall ==
  /\ StopRoom
  /\ StartRoom
  /\ Step(Outcome(StartPlayback(St)))

StopPlaybackCall ==
  /\ StopRoom
  /\ Step(Outcome(StopPlayback(St)))

DisposeCall ==
  /\ StopRoom
  /\ Step(Outcome(EngineDispose(St)))

\* a source plays its buffer to the end
PlaybackEnded(t) ==
  /\ NoMicrotask
  /\ voices[t] > 0
  /\ Step(SourceEnded([St EXCEPT !.voices[t] = @ - 1], t))

\* the 'ended' event of a source that stop() stopped
StoppedSourceEnded(t) ==
  /\ NoMicrotask
  /\ pendingEnded[t] > 0
  /\ Step(SourceEnded([St EXCEPT !.pendingEnded[t] = @ - 1], t))

Next ==
  \/ Initialize
  \/ StartRecordingCall
  \/ \E i \in CallIds : UserMediaSettled(i)
  \/ \E i \in CallIds : RecorderReady(i)
  \/ \E i \in CallIds : StartSettled(i)
  \/ StopRecordingCall
  \/ StartPlaybackCall
  \/ StopPlaybackCall
  \/ DisposeCall
  \/ \E t \in TrackIds : PlaybackEnded(t)
  \/ \E t \in TrackIds : StoppedSourceEnded(t)
  \/ NoMicrotask /\ ClockObserved /\ Tick
  \/ NoMicrotask /\ \E m \in MRIds : MRTimeslice(m)
  \/ NoMicrotask /\ \E m \in MRIds : MRFlush(m)
  \/ NoMicrotask /\ \E m \in MRIds : MRStopEvent(m)
  \/ NoMicrotask /\ \E m \in MRIds : MRDecodeDone(m)
  \/ NoMicrotask /\ \E r \in RecIds : ProgressTimer(r)

Spec == InitEngine /\ [][Next]_vars

---------------------------------------------------------------------------
(* The engine driven through recording sessions only, with the platform's *)
(* scheduling: a MediaRecorder that was stopped delivers its events, and  *)
(* the decode of what it recorded settles                                 *)

NextRecording ==
  \/ Initialize
  \/ StartRecordingCall
  \/ \E i \in CallIds : UserMediaSettled(i)
  \/ \E i \in CallIds : RecorderReady(i)
  \/ \E i \in CallIds : StartSettled(i)
  \/ StopRecordingCall
  \/ NoMicrotask /\ ClockObserved /\ Tick
  \/ NoMicrotask /\ \E m \in MRIds : MRTimeslice(m)
  \/ NoMicrotask /\ \E m \in MRIds : MRFlush(m)
  \/ NoMicrotask /\ \E m \in MRIds : MRStopEvent(m)
  \/ NoMicrotask /\ \E m \in MRIds : MRDecodeDone(m)
  \/ NoMicrotask /\ \E r \in RecIds : ProgressTimer(r)

\* a task of the event loop that is due: an event of a MediaRecorder that was
\* stopped, or a settled decode
EventLoopStep ==
  NoMicrotask /\ \E m \in MRIds : MRFlush(m) \/ MRStopEvent(m) \/ MRDecodeDone(m)

SpecRecording == InitEngine /\ [][NextRecording]_vars /\ WF_vars(EventLoopStep)

---------------------------------------------------------------------------
(* The engine driven through its track controls *)

MixerTrackIds == (1..MaxMixerTrack) \cup {UnknownTrack}

\* volumes the callers ask for: below the range, inside it, above it
VolumeRequests == {0 - FullVolume, FullVolume \div 2, 2 * FullVolume}

\* a track control used on an engine that initialize() has not set up
Early(S) == IF S.audioContext = "null" THEN [S EXCEPT !.hMixedEarly = TRUE] ELSE S

SetTrackVolumeCall ==
  \E t \in MixerTrackIds, v \in VolumeRequests :
     Step(Outcome(SetTrackVolume(Early(St), t, v)))

MuteTrackCall ==
  \E t \in MixerTrackIds, mute \in BOOLEAN :
     Step(Outcome(MuteTrack(Early(St), t, mute)))

SoloTrackCall ==
  \E t \in MixerTrackIds, solo \in BOOLEAN :
     Step(Outcome(SoloTrack(Early(St), t, solo)))

NextMixer ==
  \/ Initialize
  \/ SetTrackVolumeCall
  \/ MuteTrackCall
  \/ SoloTrackCall
  \/ DisposeCall

SpecMixer == InitEngine /\ [][NextMixer]_vars

---------------------------------------------------------------------------
(* The engine driven through playback, on tracks whose buffers the caller *)
(* assigns as the tests do                                                *)

\* the buffer a test stores in a track
TestBuffer == Decoded(<< Blob(1, 1) >>)

\* track.audioBuffer = buffer, on the track object getTrack() returns
AssignBuffer(t) ==
  /\ tracks[t].audioBuffer = NoBuffer
  /\ Step([St EXCEPT !.tracks[t].audioBuffer = TestBuffer])

\* startPlayback(), counted in hSessions up to MaxPlaybacks ("or more")
CountedStartPlaybackCall ==
  /\ StopRoom
  /\ StartRoom
  /\ Step(Outcome([StartPlayback(St) EXCEPT
                     !.hSessions = Min(@ + 1, MaxPlaybacks)]))

NextPlayback ==
  \/ Initialize
  \/ \E t \in 1..MaxMixerTrack : AssignBuffer(t)
  \/ MuteTrackCall
  \/ CountedStartPlaybackCall
  \/ StopPlaybackCall
  \/ DisposeCall
  \/ \E t \in TrackIds : PlaybackEnded(t)
  \/ \E t \in TrackIds : StoppedSourceEnded(t)

SpecPlayback == InitEngine /\ [][NextPlayback]_vars

---------------------------------------------------------------------------
(* A LevelMonitor driven directly, as its tests do, and the platform's    *)
(* animation frames                                                       *)

\* the test constructs the monitor with or without an input analyser
InitLevels ==
  /\ InitCommon
  /\ levelMonitor.constructed
  /\ recorders = [r \in RecIds |-> FreshRecorder]

LevelCallbackIds == 1..2
\* what a test's callback does before it returns
Inner == {"none", "stop"}

LStart(n, inner) ==
  /\ levelMonitor.constructed
  /\ levelMonitor.onLevelUpdate.kind # "engine"
  /\ Cardinality(levelMonitor.frames) < MaxFrames
  /\ Step(Returned(LMStart(Emit(St, Ev("op", n, "LevelMonitor.start")),
                           LevelCallback(n), inner), "start"))

LStop ==
  /\ levelMonitor.constructed
  /\ levelMonitor.onLevelUpdate.kind # "engine"
  /\ Step(Returned(LMStop(Emit(St, Ev("op", 0, "LevelMonitor.stop"))), "stop"))

LSetInputAnalyser(analyser) ==
  /\ levelMonitor.constructed
  /\ levelMonitor.onLevelUpdate.kind # "engine"
  /\ Step(LMSetInputAnalyser(St, analyser))

\* the platform runs a requested animation frame
AnimationFrame(id, inner) ==
  /\ id \in levelMonitor.frames
  /\ levelMonitor.onLevelUpdate.kind = "engine" => inner = "none"
  /\ Step(LMMonitor(Emit([St EXCEPT !.levelMonitor.frames = @ \ {id}],
                         Ev("frame", id, "")), inner))

NextLevels ==
  \/ \E n \in LevelCallbackIds, inner \in Inner : LStart(n, inner)
  \/ LStop
  \/ \E analyser \in BOOLEAN : LSetInputAnalyser(analyser)
  \/ \E id \in FrameIds, inner \in Inner : AnimationFrame(id, inner)

SpecLevels == InitLevels /\ [][NextLevels]_vars

---------------------------------------------------------------------------
(* The engine driven through recording sessions while its level monitor   *)
(* runs                                                                   *)

NextMonitoring ==
  \/ NextRecording
  \/ NoMicrotask /\ \E id \in FrameIds : AnimationFrame(id, "none")

SpecMonitoring == InitEngine /\ [][NextMonitoring]_vars

---------------------------------------------------------------------------
(* Claims about the capture strategies, checked under SpecCapture *)

\* nothing of the session is still under way: the strategy is stopped, no
\* message is in a port, no MediaRecorder event or decode is pending
CaptureQuiescent ==
  /\ ~recorders[1].isRecording
  /\ ~recorders[1].procRecording
  /\ recorders[1].toProc = << >>
  /\ recorders[1].toMain = << >>
  /\ \A m \in MRIds : mrs[m].state \in {"free", "inactive"}

\* C1: for each strategy and every number N >= 0 of chunks delivered between
\* start() and stop(), the complete callback is invoked exactly once after
\* stop(): never more often than stop() was called, and once for every stop()
\* when nothing of the session is pending any more.
C1_CompleteExactlyOnce ==
  /\ hCompletes <= hStops
  /\ CaptureQuiescent => hCompletes = hStops

\* the samples held by the chunks the strategy has stored, in the order stored
StoredSamples ==
  LET R == recorders[1]
      flat == [i \in 1..Len(R.procChunks) |-> R.procChunks[i].channelData]
      one(ch) == IF ch.ref THEN inputBuffer[ch.ch] ELSE ch.data
  IN << [i \in 1..Len(R.recordingBuffer) |-> one(R.recordingBuffer[i])],
        [i \in 1..Len(flat) |-> [c \in 1..Len(flat[i]) |-> one(flat[i][c])]] >>

IsPrefix(a, b) == Len(a) <= Len(b) /\ \A i \in 1..Len(a) : b[i] = a[i]

\* C2: whatever the platform does with its input buffer after a capture
\* callback has returned, the samples of the chunks already stored for the
\* session do not change: as long as the store is not reset, its earlier
\* content is a prefix of its later content.
C2_DefensiveCopy ==
  [][ /\ (Len(StoredSamples[1]') >= Len(StoredSamples[1])
            => IsPrefix(StoredSamples[1], StoredSamples[1]'))
      /\ (Len(StoredSamples[2]') >= Len(StoredSamples[2])
            => IsPrefix(StoredSamples[2], StoredSamples[2]')) ]_vars

\* a chunk of the first block is stored and the platform has since reused its
\* buffer for the second block
C2_Witness ==
  /\ blockCount = 2
  /\ \/ /\ Len(StoredSamples[1]) >= 2
        /\ StoredSamples[1][1][BufferSize] = Sample(1, 1, BufferSize)
        /\ inputBuffer[1][BufferSize] = Sample(2, 1, BufferSize)
     \/ /\ Len(StoredSamples[2]) >= 2
        /\ StoredSamples[2][1][1][BufferSize] = Sample(1, 1, BufferSize)
        /\ inputBuffer[1][BufferSize] = Sample(2, 1, BufferSize)

Abs(x) == IF x < 0 THEN 0 - x ELSE x

\* C3 as claimed: for every strategy the length of the result is the time
\* between start() and stop() times the sample rate, within one sample.
C3_LengthFromElapsed ==
  (hStops = 1 /\ hCompletes = 1)
    => Abs(hLast.length * TicksPerSecond - hStopElapsed * SampleRate)
         <= TicksPerSecond

RECURSIVE SumFirstChannel(_)
SumFirstChannel(data) ==
  IF data = << >> THEN 0
  ELSE Len(Head(data).channelData[1]) + SumFirstChannel(Tail(data))

\* C3 amended: the block-callback strategy takes the length of the result from
\* the time between start() and stop() (rounded down to a sample); the
\* low-latency strategy takes it from the chunks it received, and the
\* container strategy from the audio the decoder returned.  Every channel
\* array of a block-callback or low-latency result has that length.
C3_LengthPerStrategy ==
  [][ hCompletes' = hCompletes + 1 =>
        /\ recorders[1].kind = "script" =>
             /\ hLast'.length =
                  ((currentTime - recorders[1].recordingStartTime) * SampleRate)
                     \div TicksPerSecond
             /\ \A c \in 1..hLast'.numberOfChannels :
                  Len(hLast'.channelData[c]) = hLast'.length
        /\ recorders[1].kind = "worklet" =>
             /\ hLast'.length = SumFirstChannel(Head(recorders[1].toMain).data)
             /\ \A c \in 1..hLast'.numberOfChannels :
                  Len(hLast'.channelData[c]) = hLast'.length
        /\ recorders[1].kind = "media" =>
             \E m \in MRIds :
                /\ mrs[m].state = "decoding"
                /\ hLast'.length = Len(mrs[m].job) * BlobFrames ]_vars

\* a block-callback result whose length differs from the length of the chunks
\* buffered for its first channel
C3_Witness ==
  /\ recorders[1].kind = "script"
  /\ hCompletes = 1
  /\ recorders[1].processorChannels = 2
  /\ Len(recorders[1].recordingBuffer) = 2
  /\ hLast.length > BufferSize

---------------------------------------------------------------------------
(* Claims about the engine, checked under Spec *)

HasType(evs, type) == \E i \in DOMAIN evs : evs[i].type = type

C5_SingleFlight ==
  /\ Cardinality(streams) <= 1
  /\ Cardinality({ r \in RecIds : recorders[r].kind # "none" }) <= 1

\* C6 as claimed: every change of the state is one of the listed transitions.
C6_ListedTransitions ==
  [][ state' # state =>
        \/ /\ state = "idle" /\ state' = "recording"
           /\ Has(events', "resume", "startRecording")
        \/ /\ state = "recording" /\ state' = "idle"
           /\ Has(events', "op", "stopRecording")
        \/ /\ state \in {"idle", "stopped"} /\ state' = "playing"
           /\ Has(events', "op", "startPlayback")
           /\ Playable(St) # {}
        \/ /\ state = "playing" /\ state' = "stopped"
           /\ \/ Has(events', "op", "stopPlayback")
              \/ Has(events', "op", "ended") ]_vars

\* C7 as claimed: while a recording is in progress (the state is RECORDING,
\* the engine's strategy is recording and no startRecording call is pending),
\* startPlayback starts no source and does not change the state to PLAYING.
C7_NoPlaybackWhileRecording ==
  [][ (/\ state = "recording"
       /\ recorder # 0 /\ recorders[recorder].isRecording
       /\ \A i \in CallIds : calls[i] = NoCall
       /\ Has(events', "op", "startPlayback"))
      => /\ state' # "playing"
         /\ voices' = voices
         /\ playbackSources' = playbackSources ]_vars

\* a step in which a startRecording call that had passed the guards rejects
FailedStart ==
  /\ Has(events', "resume", "startRecording")
  /\ HasType(events', "throw")

\* C8 as claimed: when startRecording fails at device acquisition, strategy
\* creation or strategy start, then afterwards no acquired stream is live, no
\* input source is connected, no MediaRecorder is recording and no track has
\* isRecording set.
C8_FailedStartCleansUp ==
  [][ FailedStart
      => /\ streams' = {} /\ mediaStream' = 0
         /\ inputSources' = {} /\ inputSource' = 0
         /\ \A m \in MRIds : mrs'[m].state # "recording"
         /\ \A t \in TrackIds : ~tracks'[t].isRecording ]_vars

\* C9 as claimed: after a startRecording call that rejects at whichever step,
\* the state is IDLE and the engine holds no recorder, so that the next
\* startRecording is not rejected with 'Recording already in progress'.
C9_RetryableAfterFailure ==
  [][ FailedStart => (state' = "idle" /\ recorder' = 0) ]_vars

\* a step in which the container strategy of an engine session ends without
\* calling the complete callback: its stop event finds no chunk, or the
\* decoding of its chunks fails
SessionAbandoned ==
  \E m \in MRIds :
     /\ mrs[m].state \in {"stopping", "decoding"}
     /\ mrs'[m].state \in {"inactive", "free"}
     /\ recorders[mrs[m].owner].onComplete.kind = "engine"
     /\ ~HasType(events', "onComplete")

\* C10 as claimed: a session that ends without a result emits an error event.
C10_FailureSurfaces ==
  [][ SessionAbandoned => HasType(events', "error") ]_vars

\* a step in which the container strategy r of an engine session reports that
\* it has no result: no chunk at its stop event, or a failed decode
NoResult(r) ==
  /\ recorders[r].onComplete.kind = "engine"
  /\ \/ Has(events', "console", "No recorded chunks to process")
     \/ Has(events', "console", "Error processing recording")
  /\ \E i \in DOMAIN events' : events'[i].type = "console" /\ events'[i].id = r

\* C11: a step in which the strategy of a session reports that it has no
\* result changes no track's audioBuffer and emits no recordingComplete; and a
\* track's audioBuffer changes only in a step in which a complete callback for
\* that track runs.  So a session without a result leaves the buffer of its
\* track as it was.
C11_BufferPreserved ==
  [][ /\ \A r \in RecIds :
           NoResult(r) =>
             /\ \A t \in TrackIds : tracks'[t].audioBuffer = tracks[t].audioBuffer
             /\ ~HasType(events', "recordingComplete")
      /\ \A t \in TrackIds :
           tracks'[t].audioBuffer # tracks[t].audioBuffer =>
             \E i \in DOMAIN events' :
                events'[i] = Ev("onComplete", t, "") ]_vars

\* the decode of a second session on a track that holds a recording has failed
C11_Witness ==
  /\ Has(events, "console", "Error processing recording")
  /\ \E t \in TrackIds : tracks[t].audioBuffer # NoBuffer
  /\ hSessions = 2

\* C12: the worklet and the script processor being available, no call of
\* startRecording fails, towards its caller or the 'error' listeners, because
\* the platform has no MediaRecorder
C12_FallsBackToNextStrategy ==
  /\ ~Has(events, "throw", "MediaRecorder is not supported")
  /\ ~Has(events, "error", "MediaRecorder is not supported")

\* stopRecording() has just stopped the recording strategy the engine holds
ActiveSessionStopped ==
  /\ Has(events, "op", "stopRecording")
  /\ recorder # 0
  /\ \A i \in CallIds : calls[i] = NoCall
  /\ \E m \in MRIds : mrs[m].owner = recorder /\ mrs[m].state = "stopping"

Released == recorder = 0 /\ inputSource = 0 /\ mediaStream = 0

\* C13: after stopRecording() on an active session, eventually the engine
\* holds no recorder, no input source and no device stream
C13_EventuallyReleased == ActiveSessionStopped ~> Released

\* C14: once dispose() has closed the audio context, no callback of a
\* recording strategy starts a decode on it
C14_NoUseAfterClose ==
  [][ audioContext = "closed" =>
        \A m \in MRIds : mrs'[m].state = "decoding" => mrs[m].state = "decoding" ]_vars

\* C15: when dispose() returns, the state is IDLE and no track is recording
\* or playing
C15_DisposedIsIdle ==
  (events # << >> /\ events[1] = Ev("op", 0, "dispose")) =>
     /\ state = "idle"
     /\ \A t \in TrackIds : ~tracks[t].isRecording /\ ~tracks[t].isPlaying

\* what the gain node of track t is to hold
ResolvedGain(t) ==
  IF tracks[t].isMuted THEN 0
  ELSE IF (\E u \in TrackIds : tracks[u].isSolo) /\ ~tracks[t].isSolo THEN 0
  ELSE tracks[t].volume

\* C16: on an initialized engine whose track controls were used only since
\* initialize(), every track's gain node holds 0 if the track is muted,
\* otherwise 0 if some track is soloed and this one is not, otherwise the
\* track's volume
C16_GainsResolved ==
  (audioContext = "running" /\ ~hMixedEarly) =>
     \A t \in TrackIds : trackGain[t] = ResolvedGain(t)

\* a muted track, a soloed track and a track silenced by the solo, each with
\* a volume that was set
C16_Witness ==
  /\ audioContext = "running" /\ ~hMixedEarly
  /\ \E a, b, c \in TrackIds :
        /\ tracks[a].isMuted /\ tracks[a].isSolo /\ tracks[a].volume = FullVolume \div 2
        /\ tracks[b].isSolo /\ ~tracks[b].isMuted
        /\ trackGain[b] = FullVolume \div 2
        /\ ~tracks[c].isSolo /\ ~tracks[c].isMuted
        /\ tracks[c].volume > 0 /\ trackGain[c] = 0

Soloed == { t \in TrackIds : tracks[t].isSolo }

\* soloTrack() has just returned on an initialized engine whose track controls
\* were used only since initialize()
AfterSoloTrack ==
  audioContext = "running" /\ ~hMixedEarly /\ Has(events, "op", "soloTrack")

\* C17 as claimed: after a soloTrack() that leaves exactly one track soloed,
\* that track's gain is its volume and every other gain is 0; after one that
\* leaves no track soloed, every gain is 0 if the track is muted, else its
\* volume.
C17_SoloGainIsVolume ==
  AfterSoloTrack =>
     /\ Cardinality(Soloed) = 1 =>
          \A t \in TrackIds :
             trackGain[t] = IF tracks[t].isSolo THEN tracks[t].volume ELSE 0
     /\ Soloed = {} =>
          \A t \in TrackIds :
             trackGain[t] = IF tracks[t].isMuted THEN 0 ELSE tracks[t].volume

\* C17: after a soloTrack() that leaves exactly one track soloed, that
\* track's gain is 0 if it is muted and its volume otherwise, and every other
\* gain is 0; after one that leaves no track soloed, every gain is 0 if the
\* track is muted, else its volume.
C17_SoloResolution ==
  AfterSoloTrack =>
     /\ Cardinality(Soloed) = 1 =>
          \A t \in TrackIds :
             trackGain[t] = IF tracks[t].isSolo /\ ~tracks[t].isMuted
                            THEN tracks[t].volume ELSE 0
     /\ Soloed = {} =>
          \A t \in TrackIds :
             trackGain[t] = IF tracks[t].isMuted THEN 0 ELSE tracks[t].volume

\* the one soloed track is muted and has a volume above 0, and another track
\* has a volume above 0
C17_Witness ==
  /\ AfterSoloTrack
  /\ \E t \in TrackIds :
        /\ Soloed = {t}
        /\ tracks[t].isMuted /\ tracks[t].volume = FullVolume \div 2
        /\ trackGain[t] = 0
        /\ \E u \in TrackIds \ {t} : tracks[u].volume = FullVolume \div 2

\* startPlayback() has just returned
AfterStartPlayback ==
  /\ events # << >>
  /\ events[1] = Ev("op", 0, "startPlayback")
  /\ ~HasType(events, "throw")

\* the tracks that have a stored buffer and are not muted
Audible == { t \in TrackIds : tracks[t].audioBuffer # NoBuffer /\ ~tracks[t].isMuted }

\* C18: when a start of playback returns, isPlaying is true for exactly the
\* tracks that have a stored buffer and are not muted, and the count start()
\* returned is the number of those tracks
C18_PlayingIffAudible ==
  AfterStartPlayback =>
     /\ \A t \in TrackIds : tracks[t].isPlaying <=> t \in Audible
     /\ \E i \in DOMAIN events :
           events[i] = Ev("return", Cardinality(Audible), "PlaybackManager.start")

\* the tracks with a voice that was started and has not ended yet
Unended == { t \in TrackIds : voices[t] + pendingEnded[t] > 0 }

\* C19: when a voice of the first playback ends, by itself or after stop(),
\* its track's isPlaying is false, and the end-of-playback callback has fired
\* in that step exactly if the voice was the last one to end
C19_EndCallbackOnce ==
  (audioContext = "running" /\ hSessions = 1 /\ Has(events, "op", "ended")) =>
     /\ \A t \in TrackIds :
           (\E i \in DOMAIN events : events[i] = Ev("op", t, "ended"))
              => ~tracks[t].isPlaying
     /\ HasType(events, "onEnded") <=> Unended = {}

\* the channelCount the strategy was started with
Requested(r) ==
  IF recorders[r].kind = "script" THEN recorders[r].processorChannels
  ELSE IF recorders[r].kind = "worklet" THEN recorders[r].procChannelCount
  ELSE recorders[r].channelCount

\* C20: the result a strategy hands to the complete callback has
\* min(requested channelCount, 2) channels
C20_ChannelsMinRequested ==
  Has(events, "complete", "") => hLast.numberOfChannels = Min(Requested(1), 2)

\* every variable but the record of the last step's events
varsButEvents ==
  << currentTime, inputBuffer, blockCount, streams, mrs, inputSources,
     inputGainOut, recorders, audioContext, state, tracks, mediaStream,
     inputSource, recorder, currentRecordingTrack, calls, playbackSources,
     voices, pendingEnded, hSessions, hStops, hStopElapsed, hCompletes,
     hLast, trackGain, hMixedEarly, levelMonitor >>

\* C21: stop() on a strategy that is not recording returns without throwing,
\* calls no callback and changes nothing; and the stop() calls of a session
\* deliver at most one completion
C21_StopWhenIdleIsNoOp ==
  [][ /\ (~recorders[1].isRecording /\ HStop(1)) =>
           /\ events' = << Ev("return", 0, "stop") >>
           /\ UNCHANGED varsButEvents
      /\ hCompletes' <= hSessions' ]_vars

\* a second stop() has returned after the session's completion was delivered
C21_Witness ==
  /\ events = << Ev("return", 0, "stop") >>
  /\ hSessions = 1 /\ hCompletes = 1
  /\ ~recorders[1].isRecording

\* C22: start() on a strategy that is recording throws 'Already recording'
\* and changes nothing: start time, accumulated data, connections, callbacks
\* and everything else stay as they were
C22_AlreadyRecording ==
  [][ \A c \in ChannelCounts, fail \in StartFailures :
        (recorders[1].isRecording /\ HStart(1, c, fail)) =>
           /\ events' = << Ev("throw", 0, "Already recording") >>
           /\ UNCHANGED varsButEvents ]_vars

\* a start() was rejected while the session held captured audio
C22_Witness ==
  /\ events = << Ev("throw", 0, "Already recording") >>
  /\ recorders[1].isRecording
  /\ \/ recorders[1].recordingBuffer # << >>
     \/ recorders[1].recordedChunks # << >>
     \/ recorders[1].procChunks # << >>

\* C23: for each capture strategy, start() before a successful initialize()
\* throws a not-initialized error and does not begin capture
C23_StartNeedsInitialize ==
  [][ \A c \in ChannelCounts, fail \in StartFailures :
        (~recorders[1].hInitialized /\ HStart(1, c, fail)) =>
           /\ events' = << Ev("throw", 0, "Recorder not initialized") >>
           /\ ~recorders'[1].isRecording ]_vars

\* C23 as the code has it: only the low-latency strategy refuses, with
\* 'Recorder not initialized' and no change; the container-based and the
\* block-callback strategy begin capture unless they are recording already
\* or creating or starting the MediaRecorder fails
C23_OnlyWorkletNeedsInitialize ==
  [][ \A c \in ChannelCounts, fail \in StartFailures :
        (~recorders[1].hInitialized /\ HStart(1, c, fail)) =>
           IF recorders[1].kind = "worklet"
           THEN /\ events' = << Ev("throw", 0, "Recorder not initialized") >>
                /\ UNCHANGED varsButEvents
           ELSE (fail = "none" /\ ~recorders[1].isRecording) =>
                  /\ recorders'[1].isRecording
                  /\ Has(events', "return", "start") ]_vars

\* the low-latency strategy refused a start() after initialize() had failed
C23_Witness ==
  /\ recorders[1].kind = "worklet"
  /\ ~recorders[1].hInitialized
  /\ events = << Ev("throw", 0, "Recorder not initialized") >>

\* the progress callback of strategy r reports the limit or more to the engine
LimitReported(r) ==
  /\ recorders[r].isRecording
  /\ recorders[r].onProgress.kind = "engine"
  /\ currentTime - recorders[r].recordingStartTime >= MaxRecordingTime
  /\ NoMicrotask
  /\ ProgressTimer(r)

\* C24: when a progress callback reports elapsed >= maxRecordingTime, the
\* engine stops by itself: the strategy is stopped, the recorded track's
\* isRecording is cleared and the state is no longer "recording"
C24_StopsAtLimit ==
  [][ \A r \in RecIds :
        LimitReported(r) =>
          /\ Has(events', "op", "stopRecording")
          /\ ~recorders'[r].isRecording
          /\ recorders[r].onProgress.track \in TrackIds =>
                ~tracks'[recorders[r].onProgress.track].isRecording
          /\ state' # "recording" ]_vars

---------------------------------------------------------------------------
(* Claims about the level monitor, checked under SpecLevels and *)
(* SpecMonitoring                                               *)

\* C25: start(cb2) on a running monitor is a no-op: the call returns, the
\* registered callback, the pending frames and everything else stay as they
\* were, and no callback is invoked
C25_StartWhileActiveIsNoOp ==
  [][ \A n \in LevelCallbackIds, inner \in Inner :
        (levelMonitor.isActive /\ LStart(n, inner)) =>
           /\ events' = << Ev("op", n, "LevelMonitor.start"), Ev("return", 0, "start") >>
           /\ UNCHANGED varsButEvents ]_vars

\* start(callback 2) has returned on a monitor that runs with callback 1
C25_Witness ==
  /\ events = << Ev("op", 2, "LevelMonitor.start"), Ev("return", 0, "start") >>
  /\ levelMonitor.isActive
  /\ levelMonitor.onLevelUpdate = LevelCallback(1)
  /\ Cardinality(levelMonitor.frames) = 1

\* C26: a step taken on a monitor that is not running invokes the level
\* callback only if the step is a start(); within a step no callback follows
\* a stop(); and stop() on a monitor that is not running returns without
\* throwing and leaves it stopped with its callback
C26_SilentAfterStop ==
  [][ /\ (~levelMonitor.isActive /\ ~Has(events', "op", "LevelMonitor.start")) =>
            (~HasType(events', "level") /\ ~HasType(events', "levelUpdate"))
      /\ \A i, j \in DOMAIN events' :
            (i < j /\ events'[i] = Ev("op", 0, "LevelMonitor.stop")) =>
               events'[j].type \notin {"level", "levelUpdate"}
      /\ (~levelMonitor.isActive /\ LStop) =>
            /\ events' = << Ev("op", 0, "LevelMonitor.stop"), Ev("return", 0, "stop") >>
            /\ ~levelMonitor'.isActive
            /\ levelMonitor'.onLevelUpdate = levelMonitor.onLevelUpdate ]_vars

\* the frame requested after a callback that called stop() has run, and
\* invoked nothing
C26_Witness ==
  /\ Len(events) = 1 /\ events[1].type = "frame"
  /\ ~levelMonitor.isActive
  /\ levelMonitor.onLevelUpdate.kind = "test"

\* no startRecording call is in flight, no strategy is held and no input
\* source is attached
NoRecordingInFlight ==
  /\ state # "recording"
  /\ recorder = 0
  /\ inputSource = 0 /\ inputSources = {}
  /\ \A i \in CallIds : calls[i] = NoCall

\* C27: a level snapshot the engine emits while no recording is in flight
\* has no input entry
C27_NoInputWhenIdle ==
  NoRecordingInFlight => ~Has(events, "levelUpdate", "input")

---------------------------------------------------------------------------
(* Further claims about the engine, checked under Spec *)

\* C29: a step in which an engine operation rejects to its caller also emits
\* an error event
C29_RejectionEmitsError ==
  HasType(events, "throw") => HasType(events, "error")

\* the continuation of call i after getUserMedia ran createRecorder()
RecorderWasCreated(i) == UserMediaSettled(i) /\ calls'[i].pc = "init"

---------------------------------------------------------------------------
(* Further claims about the capture strategies, checked under SpecCapture *)

\* the recordingData messages among msgs
RecordingData(msgs) == { i \in DOMAIN msgs : msgs[i].type = "recordingData" }

\* C31: the result is built only after stop() and after every chunk captured
\* before it was received: no completion without a stop(); the container
\* strategy starts processing only when the MediaRecorder has delivered what
\* requestData() and stop() asked for, and processes all chunks it received;
\* the worklet strategy's processor posts one recordingData message for a
\* stop(), which carries all chunks it recorded since start
C31_ResultAfterAllChunks ==
  [][ /\ hCompletes' <= hStops'
      /\ \A m \in MRIds :
           (mrs[m].state = "stopping" /\ mrs'[m].state # "stopping") =>
              /\ mrs[m].pendingData = 0
              /\ mrs'[m].state = "decoding" =>
                   mrs'[m].job = recorders[mrs[m].owner].recordedChunks
      /\ \A m \in MRIds : mrs'[m].state = "decoding" => mrs'[m].pendingData = 0
      /\ LET R == recorders[1]
             new == RecordingData(recorders'[1].toMain)
         IN /\ Cardinality(new) + hCompletes' <= hStops'
            /\ (R.procRecording /\ ~recorders'[1].procRecording) =>
                 /\ recorders'[1].toMain =
                      Append(R.toMain, [type |-> "recordingData",
                                        data |-> CloneChunks(St, R.procChunks)])
                 /\ hStops > hCompletes ]_vars

\* the container strategy was stopped, the two deliveries stop() asked for
\* have happened and the two chunks received are being processed
C31_Witness ==
  /\ recorders[1].kind = "media"
  /\ hStops = 1
  /\ \E m \in MRIds : /\ mrs[m].state = "decoding"
                      /\ Len(mrs[m].job) = 2
                      /\ mrs[m].pendingData = 0

\* C32: dispose() of the container strategy while it is processing only
\* returns: chunks, MediaRecorder, connections and everything else stay; the
\* complete callback then gets the whole recording, and in that step the
\* processing flag is cleared and the cleanup done
C32_DisposeWhileProcessing ==
  [][ /\ (recorders[1].kind = "media" /\ recorders[1].isProcessing /\ HDispose(1)) =>
            /\ events' = << Ev("return", 0, "dispose") >>
            /\ UNCHANGED varsButEvents
      /\ (recorders[1].kind = "media" /\ hCompletes' = hCompletes + 1) =>
            /\ \E m \in MRIds :
                  /\ mrs[m].state = "decoding" /\ mrs'[m].state # "decoding"
                  /\ hLast' = Decoded(mrs[m].job)
            /\ ~recorders'[1].isProcessing
            /\ recorders'[1].mediaRecorder = 0
            /\ recorders'[1].recordedChunks = << >> ]_vars

\* dispose() has returned on a container strategy that is decoding its chunks
C32_Witness ==
  /\ recorders[1].kind = "media"
  /\ recorders[1].isProcessing
  /\ events = << Ev("return", 0, "dispose") >>
  /\ \E m \in MRIds : mrs[m].state = "decoding" /\ mrs[m].job # << >>

---------------------------------------------------------------------------
(* Further claims about recording sessions of the engine *)

\* the step emits recordingComplete for track t
Completes(t) ==
  \E i \in DOMAIN events' :
     events'[i].type = "recordingComplete" /\ events'[i].id = t

\* C33: the step in which the session recorded on track t completes replaces
\* the audioBuffer of t and changes nothing else of any track, and leaves no
\* recorder held and no device stream live
C33_CompletionFrame ==
  [][ \A t \in TrackIds :
        Completes(t) =>
          /\ \A u \in TrackIds \ {t} : tracks'[u] = tracks[u]
          /\ tracks'[t] = [tracks[t] EXCEPT !.audioBuffer = tracks'[t].audioBuffer]
          /\ tracks'[t].audioBuffer # NoBuffer
          /\ recorder' = 0
          /\ mediaStream' = 0 /\ inputSource' = 0
          /\ streams' = {} ]_vars

----------------------------------------------------------------------------
(* The block-callback strategy over a session long enough for the result   *)
(* to hold every captured block                                            *)

MaxSessionTicks == 3   \* the clock stops advancing here in a long session

InitBlocks ==
  /\ InitCapture
  /\ recorders[1].kind = "script"

\* the clock of the audio context advances
SessionTick ==
  /\ currentTime < MaxSessionTicks
  /\ Step([St EXCEPT !.currentTime = @ + 1])

NextBlocks ==
  \/ \E c \in ChannelCounts : HStart(1, c, "none")
  \/ HStop(1)
  \/ HDispose(1)
  \/ SessionTick
  \/ AudioProcess(1)

SpecBlocks == InitBlocks /\ [][NextBlocks]_vars

RECURSIVE Flatten(_)
Flatten(seqs) == IF seqs = << >> THEN << >> ELSE Head(seqs) \o Flatten(Tail(seqs))

\* the chunks captured for input channel c, in arrival order: onaudioprocess
\* pushes one chunk per channel of the processor for every block
ChannelChunks(c) ==
  LET R == recorders[1]
      n == R.processorChannels
      idx == { i \in 1..Len(R.recordingBuffer) : (i - c) % n = 0 }
      nth[k \in 0..Cardinality(idx)] ==
        IF k = 0 THEN << >>
        ELSE Append(nth[k - 1],
                    Deref(St, R.recordingBuffer[c + (k - 1) * n]))
  IN nth[Cardinality(idx)]

\* C34: when a block-callback session started with channelCount 1 or 2
\* completes, channel c of the result starts with the concatenation, in
\* arrival order, of the chunks captured for input channel c (whenever the
\* result is long enough to hold that concatenation).
C34_ChannelIsConcatenation ==
  [][ (recorders[1].kind = "script" /\ hCompletes' = hCompletes + 1
       /\ recorders[1].processorChannels \in {1, 2}) =>
        \A c \in 1..recorders[1].processorChannels :
          LET cat == Flatten(ChannelChunks(c)) IN
          Len(cat) <= hLast'.length =>
            SubSeq(hLast'.channelData[c], 1, Len(cat)) = cat ]_vars

\* the chunks organizeChannelData takes for result channel ch, in arrival order
StrideChunks(ch, step) ==
  LET R == recorders[1]
      idx == { i \in 1..Len(R.recordingBuffer) : i >= ch /\ (i - ch) % step = 0 }
      nth[k \in 0..Cardinality(idx)] ==
        IF k = 0 THEN << >>
        ELSE Append(nth[k - 1],
                    Deref(St, R.recordingBuffer[ch + (k - 1) * step]))
  IN nth[Cardinality(idx)]

\* how many of the chunks, taken in order, fit into n samples
Fitting(chunks, n) ==
  LET ks == { k \in 0..Len(chunks) : SumLen(SubSeq(chunks, 1, k)) <= n }
  IN CHOOSE k \in ks : \A j \in ks : j <= k

C36_LateEndedAfterRestart ==
  [][ \A t \in TrackIds :
        (StoppedSourceEnded(t) /\ voices[t] > 0 /\ t \in playbackSources
           /\ tracks[t].isPlaying) =>
          /\ t \in playbackSources'
          /\ tracks'[t].isPlaying
          /\ ~HasType(events', "onEnded") ]_vars

\* C37: at most one animation frame of the monitoring loop is pending at any
\* time, whatever start() and stop() calls were made, from outside or from
\* inside the level callback.
C37_OnePendingTick == Cardinality(levelMonitor.frames) <= 1

\* a capture strategy is recording for the engine and the recorded track has
\* its isRecording flag set
RecordingActive ==
  /\ recorder # 0
  /\ recorders[recorder].isRecording
  /\ currentRecordingTrack \in TrackIds
  /\ tracks[currentRecordingTrack].isRecording

\* C38: whenever no startRecording call is between two of its awaits (and
\* the track recorded on is one of the engine's), the state is RECORDING
\* exactly if a capture strategy is recording and the recorded track has
\* isRecording set; at most one track has isRecording set;
\* and stopPlayback() and the 'ended' events of the playback voices leave the
\* state as it is while a recording is active.
C38_RecordingStateConsistent ==
  [][ /\ (NoMicrotask' /\ currentRecordingTrack' # UnknownTrack) =>
            (state' = "recording" <=> RecordingActive')
      /\ Cardinality({ t \in TrackIds : tracks'[t].isRecording }) <= 1
      /\ (RecordingActive /\ (\/ StopPlaybackCall
                              \/ \E t \in TrackIds : PlaybackEnded(t)
                              \/ \E t \in TrackIds : StoppedSourceEnded(t)))
            => state' = state ]_vars

\* C39: on an initialized engine whose track controls were used before
\* initialize(), every track's gain node holds the solo/mute resolution of the
\* track's present volume, mute and solo values.
C39_EarlySettingsKept ==
  (audioContext = "running" /\ hMixedEarly) =>
     \A t \in TrackIds : trackGain[t] = ResolvedGain(t)

\* C40: when the completion callback of a session started with a trackId that
\* is not one of the engine's tracks runs with a non-empty recording (a single
\* startRecording call was made), then in that step the recorder is disposed
\* and no longer held, the input source is detached and the device stream is
\* released, so that the guard of a later startRecording passes.
C40_UnknownTrackReleased ==
  [][ ( /\ audioContext = "running" /\ hSessions = 1
        /\ \E i \in DOMAIN events' : events'[i] = Ev("onComplete", UnknownTrack, "")
        /\ \E m \in MRIds : /\ mrs[m].state = "decoding"
                            /\ mrs'[m].state # "decoding"
                            /\ Decoded(mrs[m].job).length > 0 ) =>
        /\ recorder' = 0
        /\ inputSource' = 0 /\ mediaStream' = 0
        /\ streams' = {} ]_vars

====
